---------------------------- MODULE Spec2Model ----------------------------
(***************************************************************************)
(* A model of the dl4cv training toolkit: the Solver's construction and    *)
(* training loop (src/dl4cv/solver.py), the loss call of the two networks  *)
(* (src/dl4cv/classifiers/fc_net.py) with the stateful layers they drive,  *)
(* and batch normalization and dropout called on their own                 *)
(* (src/dl4cv/layers.py).                                                  *)
(*                                                                         *)
(* Specifications, all over the same variables:                            *)
(*   Spec         train() of a Solver on a model with drawn losses         *)
(*   FaultSpec    the same, on a model whose loss() may raise              *)
(*   RetrainSpec  train() called twice on one Solver                       *)
(*   OptimSpec    the same, with a float or an array learning rate         *)
(*   FcTrainSpec  train() of a Solver on a FullyConnectedNet               *)
(*   SeedTrainSpec  the same, on a net with dropout layers                 *)
(*   CtorSpec     Solver(model, data, **kwargs)                            *)
(*   NetSpec      loss() calls on a TwoLayerNet or a FullyConnectedNet     *)
(*   BnSpec       batchnorm_forward / batchnorm_backward calls             *)
(*   DropoutSpec  dropout_forward / dropout_backward calls                 *)
(*   AccSpec      check_accuracy(X, y, num_samples, batch_size) calls      *)
(*                                                                         *)
(* Numbers.  The program computes in floating point; the model keeps the   *)
(* quantities the properties are about in exact integer units:             *)
(*   - an accuracy is the number of correctly classified examples (the     *)
(*     program divides that count by the fixed number of examples, so the  *)
(*     order of two accuracies is the order of the counts);                *)
(*   - a parameter, a gradient, a loss and a learning rate are integers.   *)
(* What a forward/backward pass returns for a mini-batch depends on data   *)
(* the model does not hold; it is drawn from a small set at each call.     *)
(***************************************************************************)
EXTENDS Integers, Sequences, FiniteSets, TLC

VARIABLES
    \* ---- Solver configuration (solver.py 115-130), fixed at construction
    num_train,              \* X_train.shape[0]
    batch_size,
    num_epochs,
    early_stopping,
    lr_decay,
    optim_config,           \* base optimizer hyper-parameters
    lr_is_array,            \* TRUE iff the learning rate was given as an array
    heap,                   \* the arrays optimizer records refer to, by address
    verbose,
    update_rule,            \* the name of the update rule
    extra_kwargs,           \* the keyword arguments __init__ does not know
    solver_attrs,           \* the attributes the Solver object has
    \* ---- the model the Solver trains
    model_params,           \* model.params : parameter name -> value
    \* ---- Solver book-keeping (solver.py 150-164)
    epoch,
    best_val_acc,
    best_params,
    early_stopping_counter,
    loss_history,
    val_loss_history,
    train_acc_history,
    val_acc_history,
    optim_configs,          \* parameter name -> optimizer record
    \* ---- position inside train() (solver.py 242-306)
    t,                      \* the loop variable of train()
    pc,                     \* "loop", "check", "done"
    \* ---- history of the run, kept for the properties only
    stopped,                \* TRUE iff train() left its loop by the break
    ckpt_params,            \* model.params as they were at each checkpoint
    ckpt_iters,             \* the iteration t of each checkpoint
    report,                 \* what the last verbose epoch report was given
    acc_call,               \* the locals of the check_accuracy call under way
    params_is_best,         \* TRUE iff model.params and best_params are one dict
    train_calls,            \* how many times train() was called
    \* ---- the network (fc_net.py): its configuration and layer state
    net_class,              \* "TwoLayerNet" or "FullyConnectedNet"
    num_layers,
    use_batchnorm,
    use_dropout,
    reg,
    bn_params,              \* one dictionary per batch-normalization layer
    dropout_param,          \* the dictionary shared by the dropout layers
    \* ---- layers called on their own (layers.py)
    bn_cache,               \* the cache a batchnorm_forward call handed out
    dropout_cache,          \* a cache a dropout_forward call handed out
    \* ---- the same training run with verbose = False, for comparison
    quiet_net,              \* its bn_params and dropout_param
    \* ---- the calls of loss()
    rng,                    \* the state of the np.random generator
    ncalls,                 \* how many calls were made
    ret                     \* what the last call was given, saw and returned

solverVars == <<num_train, batch_size, num_epochs, early_stopping, lr_decay,
                optim_config, lr_is_array, heap, verbose, update_rule,
                extra_kwargs, solver_attrs, model_params, epoch, best_val_acc,
                best_params, early_stopping_counter, loss_history,
                val_loss_history, train_acc_history, val_acc_history,
                optim_configs, t, pc, stopped, ckpt_params, ckpt_iters, report, acc_call,
                   params_is_best, train_calls>>

netVars == <<net_class, num_layers, use_batchnorm, use_dropout, reg,
             bn_params, dropout_param, bn_cache, dropout_cache, quiet_net,
             rng, ncalls, ret>>

vars == <<solverVars, netVars>>

-----------------------------------------------------------------------------
(* Bounds of the model *)

MaxNumTrain == 2
MaxEpochs == 4
MaxPatience == 2
NumVal == 2
MaxIterations == 4
MaxLayers == 3
MaxCalls == 3

MaxDrawn == 2

NumTrainSet == 1..MaxNumTrain
BatchSizeSet == {1, 2}
NumEpochsSet == 0..MaxEpochs
EarlyStoppingSet == (-1)..MaxPatience
LrDecaySet == {1, 2}
LearningRateSet == {3}

Max(a, b) == IF a >= b THEN a ELSE b

-----------------------------------------------------------------------------
(* The trained model: a TwoLayerNet's parameter store *)

ParamKeys == {"W1", "b1", "W2", "b2"}

WeightKeys == {"W1", "W2"}

InitParams == [k \in ParamKeys |-> IF k \in WeightKeys THEN 1 ELSE 0]

EmptyDict == [k \in {} |-> 0]

\* What model.loss(X_batch, y_batch) may return for a mini-batch: the loss and
\* one gradient per parameter (a batch the model already fits, and one it
\* does not).
LossOutcomes ==
    { [loss |-> 1, grads |-> [k \in ParamKeys |-> 0]],
      [loss |-> 3, grads |-> [k \in ParamKeys |-> IF k \in WeightKeys THEN 1 ELSE -1]] }

\* What the evaluation of a checkpoint may find: check_accuracy on the training
\* subsample and on the validation set (numbers of correct predictions), and
\* the validation loss reported in verbose mode.
EvalOutcomes ==
    { [train_acc |-> v % 2, val_acc |-> v, val_loss |-> 1 + v] : v \in 0..NumVal }

\* The number a record's learning_rate stands for.  A Python float is held in
\* the record itself; an array is an object of its own, the record holds its
\* address, and every copy of the entry refers to the same array.
LrValue(config) ==
    IF lr_is_array THEN heap[config.learning_rate] ELSE config.learning_rate

\* optim.sgd: a plain gradient step; the record is handed back as it came.
sgd(w, dw, config) == <<w - LrValue(config) * dw, config>>

-----------------------------------------------------------------------------
(* Solver *)

IterationsPerEpoch == Max(num_train \div batch_size, 1)

NumIterations == num_epochs * IterationsPerEpoch

\* A variant of EpochEnd that tests the iteration number before its step.
EpochEndBeforeStep(i) == i % IterationsPerEpoch = 0

EpochEnd(i) == (i + 1) % IterationsPerEpoch = 0

\* A variant of FirstIt: no checkpoint on the first iteration.
FirstItNever(i) == FALSE

FirstIt(i) == i = 0

\* A variant of LastIt that is true on the last iteration.
LastItAtEnd(i) == i = NumIterations - 1

LastIt(i) == i = NumIterations + 1

\* A variant of Improved that also takes a tie.
ImprovedOrTie(val_acc, best) == val_acc >= best

Improved(val_acc, best) == val_acc > best

\* Variants of ShouldStop: one waits for the counter to fall below zero, the
\* other leaves out the test that early stopping is enabled.
ShouldStopBelowZero(patience, counter) == patience > -1 /\ counter < 0

ShouldStopAlways(patience, counter) == counter <= 0

ShouldStop(patience, counter) == patience > -1 /\ counter <= 0

\* for k in self.optim_configs: self.optim_configs[k]['learning_rate'] *=
\* self.lr_decay.  On a float the entry is rebound to the product; on an
\* array the product is written into the array and the entry keeps referring
\* to it.
DecayedConfigs(configs) ==
    IF lr_is_array THEN configs
    ELSE [k \in DOMAIN configs |->
            [configs[k] EXCEPT !.learning_rate = configs[k].learning_rate * lr_decay]]

DecayedHeap(configs) ==
    IF lr_is_array
    THEN [a \in DOMAIN heap |->
            heap[a] * lr_decay ^
                Cardinality({k \in DOMAIN configs : configs[k].learning_rate = a})]
    ELSE heap

\* _reset: d = {k: v for k, v in self.optim_config.items()} for every
\* parameter, a copy of the dictionary that shares its values.

ResetConfigs(params, base) == [p \in DOMAIN params |-> base]

Config == <<num_train, batch_size, num_epochs, early_stopping, lr_decay,
            optim_config, lr_is_array, verbose, update_rule, extra_kwargs,
            solver_attrs>>

\* The attributes __init__ sets itself, and those _reset adds.
CtorAttrs == {"model", "X_train", "y_train", "X_val", "y_val", "update_rule",
              "optim_config", "lr_decay", "batch_size", "num_epochs",
              "early_stopping", "print_every", "verbose"}

ResetAttrs == {"epoch", "best_val_acc", "best_params", "early_stopping_counter",
               "loss_history", "val_loss_history", "train_acc_history",
               "val_acc_history", "optim_configs"}

\* The update rules the optim module offers.
OptimRules == {"sgd"}

\* No check_accuracy call is under way.
NoCall == [pc |-> "none"]

\* No verbose epoch report has been made.
NoReport == [at |-> -1, loss_sum |-> 0, divisor |-> 0]

\* Solver.__init__ followed by _reset, and train() up to the head of its
\* loop, for the optim_config given and a model with the parameters params.
SolverStartOn(params) ==
    /\ num_train \in NumTrainSet
    /\ batch_size \in BatchSizeSet
    /\ num_epochs \in NumEpochsSet
    /\ early_stopping \in EarlyStoppingSet
    /\ lr_decay \in LrDecaySet
    /\ verbose \in BOOLEAN
    /\ update_rule \in OptimRules
    /\ extra_kwargs = {}
    /\ solver_attrs = CtorAttrs \cup ResetAttrs
    /\ NumIterations <= MaxIterations
    /\ model_params = params
    /\ epoch = 0
    /\ best_val_acc = 0
    /\ best_params = EmptyDict
    /\ early_stopping_counter = early_stopping
    /\ loss_history = <<>>
    /\ val_loss_history = <<>>
    /\ train_acc_history = <<>>
    /\ val_acc_history = <<>>
    /\ optim_configs = ResetConfigs(params, optim_config)
    /\ t = 0
    /\ pc = "loop"
    /\ stopped = FALSE
    /\ ckpt_params = <<>>
    /\ ckpt_iters = <<>>
    /\ report = NoReport
    /\ acc_call = NoCall
    /\ params_is_best = FALSE
    /\ train_calls = 1

SolverStart == SolverStartOn(InitParams)

\* A Solver whose learning rate is a Python float.
SolverInit ==
    /\ optim_config \in [learning_rate : LearningRateSet]
    /\ lr_is_array = FALSE
    /\ heap = <<>>
    /\ SolverStart

RECURSIVE SeqSum(_)
\* Python's sum() of a list.
SeqSum(s) == IF s = <<>> THEN 0 ELSE Head(s) + SeqSum(Tail(s))

\* Python's s[start:] of a list, written with 0-based start: a negative start
\* counts from the end and is clipped at the first entry.
SliceFrom(s, start) ==
    LET n == Len(s)
        b == IF start < 0 THEN Max(n + start, 0)
                          ELSE IF start > n THEN n ELSE start
    IN  SubSeq(s, b + 1, n)

\* start_epoch of the verbose report at iteration i.
StartEpoch(i) == i - IterationsPerEpoch

\* The average train loss of the verbose report at iteration i, as the sum
\* and the number it is divided by.
AverageTrainLoss(i) ==
    [at |-> i,
     loss_sum |-> SeqSum(SliceFrom(loss_history, StartEpoch(i))),
     divisor |-> IterationsPerEpoch]

\* One pass of the loop body up to the checkpoint test, for the loss and the
\* gradients out that model.loss(X_batch, y_batch) returned: the rest of
\* _step(), then the epoch-end book-keeping.
StepOn(out) ==
    /\ LET upd == [p \in DOMAIN model_params |->
                      sgd(model_params[p], out.grads[p], optim_configs[p])]
           stepped == [p \in DOMAIN model_params |-> upd[p][2]]
       IN  /\ loss_history' = Append(loss_history, out.loss)
           /\ model_params' = [p \in DOMAIN model_params |-> upd[p][1]]
           /\ best_params' = IF params_is_best THEN model_params' ELSE best_params
           /\ IF EpochEnd(t)
                 THEN /\ epoch' = epoch + 1
                      /\ optim_configs' = DecayedConfigs(stepped)
                      /\ heap' = DecayedHeap(stepped)
                 ELSE /\ epoch' = epoch
                      /\ optim_configs' = stepped
                      /\ heap' = heap
    /\ IF FirstIt(t) \/ LastIt(t) \/ EpochEnd(t)
          THEN /\ pc' = "check"
               /\ t' = t
          ELSE /\ pc' = "loop"
               /\ t' = t + 1
    /\ UNCHANGED <<Config, best_val_acc, early_stopping_counter,
                   val_loss_history, train_acc_history, val_acc_history,
                   stopped, ckpt_params, ckpt_iters, report, acc_call,
                   params_is_best, train_calls>>

\* One pass of the loop body up to the checkpoint test, on a model whose
\* loss is drawn from LossOutcomes.
Step ==
    /\ pc = "loop"
    /\ t < NumIterations
    /\ \E out \in LossOutcomes : StepOn(out)
    /\ UNCHANGED netVars

\* The evaluation checkpoint of the loop body for the accuracies and the
\* validation loss ev the model gave: both accuracies, the report in verbose
\* mode, the best-checkpoint update and the early-stopping test.
CheckpointOn(ev) ==
    /\ train_acc_history' = Append(train_acc_history, ev.train_acc)
    /\ val_acc_history' = Append(val_acc_history, ev.val_acc)
    /\ val_loss_history' = IF verbose THEN Append(val_loss_history, ev.val_loss)
                                      ELSE val_loss_history
    /\ ckpt_params' = Append(ckpt_params, model_params)
    /\ ckpt_iters' = Append(ckpt_iters, t)
    /\ report' = IF verbose /\ EpochEnd(t) THEN AverageTrainLoss(t) ELSE report
    /\ IF Improved(ev.val_acc, best_val_acc)
          THEN /\ best_val_acc' = ev.val_acc
               /\ best_params' = model_params
               /\ params_is_best' = FALSE
               /\ early_stopping_counter' = early_stopping
               /\ pc' = "loop"
               /\ t' = t + 1
               /\ UNCHANGED <<model_params, stopped>>
          ELSE /\ early_stopping_counter' = early_stopping_counter - 1
               /\ UNCHANGED <<best_val_acc, best_params>>
               /\ IF ShouldStop(early_stopping, early_stopping_counter')
                     THEN /\ model_params' = best_params
                          /\ params_is_best' = TRUE
                          /\ stopped' = TRUE
                          /\ pc' = "done"
                          /\ t' = t
                     ELSE /\ pc' = "loop"
                          /\ t' = t + 1
                          /\ UNCHANGED <<model_params, stopped, params_is_best>>
    /\ UNCHANGED <<Config, epoch, loss_history, optim_configs, heap, acc_call,
                   train_calls>>

\* The evaluation checkpoint on a model whose accuracies are drawn from
\* EvalOutcomes.
Checkpoint ==
    /\ pc = "check"
    /\ \E ev \in EvalOutcomes : CheckpointOn(ev)
    /\ UNCHANGED netVars

\* What train() does once its loop is over.
FinishOn ==
    /\ model_params' = best_params
    /\ params_is_best' = TRUE
    /\ pc' = "done"
    /\ UNCHANGED <<Config, epoch, best_val_acc, best_params,
                   early_stopping_counter, loss_history, val_loss_history,
                   train_acc_history, val_acc_history, optim_configs, heap, t,
                   stopped, ckpt_params, ckpt_iters, report, acc_call,
                   train_calls>>

\* The loop is exhausted: the best parameters are swapped into the model.
Finish ==
    /\ pc = "loop"
    /\ t >= NumIterations
    /\ FinishOn
    /\ UNCHANGED netVars


-----------------------------------------------------------------------------
(* Python dictionaries: a key may be added at any time *)

DictSet(d, k, v) == [x \in (DOMAIN d) \cup {k} |-> IF x = k THEN v ELSE d[x]]

DictGet(d, k, default) == IF k \in DOMAIN d THEN d[k] ELSE default

\* Python's None, where an array or a list is expected
None == <<>>

-----------------------------------------------------------------------------
(* Layers (layers.py).  An array is modelled by one entry.  The running      *)
(* statistics are kept in units of 1 / Scale, with Scale a power of ten large *)
(* enough for the moving average with momentum 0.9 to stay exact over the    *)
(* calls of a run.                                                          *)

Scale == 10 ^ MaxCalls

MomentumTenths == 9

\* The statistics of the mini-batch a layer sees, the data loss and the
\* back-propagated gradient of a call: all depend on the data of the call.
BatchOutcomes ==
    { [mean |-> m * Scale, var |-> (1 + m) * Scale, loss |-> 1 + m, g |-> m] : m \in 0..1 }

\* A variant of BatchnormForward that treats every mode but 'train' as 'test'.
BatchnormForwardNoRaise(bn_param, sample_mean, sample_var) ==
    LET mode == bn_param["mode"]
        running_mean == DictGet(bn_param, "running_mean", 0)
        running_var == DictGet(bn_param, "running_var", 0)
    IN  IF mode = "train"
        THEN [raised |-> FALSE, used |-> "batch",
              bn_param |->
                 DictSet(DictSet(bn_param, "running_mean",
                            (MomentumTenths * running_mean
                                + (10 - MomentumTenths) * sample_mean) \div 10),
                         "running_var",
                            (MomentumTenths * running_var
                                + (10 - MomentumTenths) * sample_var) \div 10)]
        ELSE [raised |-> FALSE, used |-> "running",
              bn_param |-> DictSet(DictSet(bn_param, "running_mean", running_mean),
                                   "running_var", running_var)]

\* batchnorm_forward(x, gamma, beta, bn_param): which statistics normalize x,
\* and bn_param as the call leaves it.
BatchnormForward(bn_param, sample_mean, sample_var) ==
    LET mode == bn_param["mode"]
        running_mean == DictGet(bn_param, "running_mean", 0)
        running_var == DictGet(bn_param, "running_var", 0)
    IN  IF mode = "train"
        THEN [raised |-> FALSE, used |-> "batch",
              bn_param |->
                 DictSet(DictSet(bn_param, "running_mean",
                            (MomentumTenths * running_mean
                                + (10 - MomentumTenths) * sample_mean) \div 10),
                         "running_var",
                            (MomentumTenths * running_var
                                + (10 - MomentumTenths) * sample_var) \div 10)]
        ELSE IF mode = "test"
        THEN [raised |-> FALSE, used |-> "running",
              bn_param |-> DictSet(DictSet(bn_param, "running_mean", running_mean),
                                   "running_var", running_var)]
        ELSE [raised |-> TRUE, used |-> "none", bn_param |-> bn_param]

-----------------------------------------------------------------------------
(* The generator behind np.random, shared by every caller.  Its state is     *)
(* told by the seed it was last seeded with (NoSeed: the seed the process    *)
(* started with) and by how many numbers were drawn since.  The numbers it   *)
(* gives are a fixed function of that state, in tenths.  The specifications  *)
(* on the dropout layer and on a FullyConnectedNet follow it; the training   *)
(* run on drawn losses (Spec) leaves it out.                                 *)

NoSeed == -1

FreshGenerator == [seed |-> NoSeed, drawn |-> 0]

\* np.random.seed(seed)
Seeded(seed) == [seed |-> seed, drawn |-> 0]

\* the generator after n more numbers were drawn
Advance(g, n) == [g EXCEPT !.drawn = @ + n]

\* the j-th number, j = 0, 1, ..., that the generator in state g gives
RandTenths(g, j) == (3 * (g.seed + 2) + 7 * (g.drawn + j)) % 10

\* (np.random.rand(n) >= p) / (1 - p), p in tenths
DropoutMask(n, p, g) ==
    [j \in 1 .. n |-> IF RandTenths(g, j - 1) >= p THEN 10 \div (10 - p) ELSE 0]

\* np.random.choice(n, size)
Choice(n, size, g) == [j \in 1 .. size |-> RandTenths(g, j - 1) % n]

\* Variants of DropoutSeed: one seeds in train mode only, the other never.
DropoutSeedInTrainOnly(dp, g) ==
    IF dp["mode"] = "train" /\ "seed" \in DOMAIN dp THEN Seeded(dp["seed"]) ELSE g

DropoutSeedNever(dp, g) == g

\* the generator after the first two lines of dropout_forward
DropoutSeed(dp, g) == IF "seed" \in DOMAIN dp THEN Seeded(dp["seed"]) ELSE g

\* dropout_forward on an array x of one axis: the output, the mask of the
\* cache, the generator the call leaves, and whether the call got as far as
\* its return (out.astype fails on None).
DropoutForward(x, dp, g) ==
    LET mode == dp["mode"]
        seeded == DropoutSeed(dp, g)
        mask == DropoutMask(Len(x), dp["p"], seeded)
    IN  IF mode = "train"
        THEN [raised |-> FALSE, out |-> [j \in DOMAIN x |-> x[j] * mask[j]],
              mask |-> mask, rng |-> Advance(seeded, Len(x))]
        ELSE IF mode = "test"
        THEN [raised |-> FALSE, out |-> x, mask |-> None, rng |-> seeded]
        ELSE [raised |-> TRUE, out |-> None, mask |-> None, rng |-> seeded]

-----------------------------------------------------------------------------
(* Networks (fc_net.py) *)

Key(prefix, i) == prefix \o ToString(i)

WInitSet == {-1, 2}

RegSet == {0, 2}

DropoutTenthsSet == {0, 5}

SeedSet == {NoSeed, 1}

\* TwoLayerNet.__init__: the parameter names
TwoLayerKeys == {"W1", "b1", "W2", "b2"}

\* FullyConnectedNet.__init__: the parameter names of a net of L layers
FcInitKeys(L, batchnorm) ==
    UNION { {Key("W", i + 1), Key("b", i + 1)} \cup
            (IF batchnorm THEN {Key("gamma", i + 1), Key("beta", i + 1)} ELSE {})
            : i \in 0..(L - 2) }
    \cup {Key("W", L), Key("b", L)}

IsWeight(k, L) == k \in {Key("W", i) : i \in 1..L}

IsGamma(k, L) == k \in {Key("gamma", i) : i \in 1..L}

\* The parameter stores a constructor may produce: weights drawn at random,
\* biases and shifts zero, scales one.
InitialStores(keys, L) ==
    { [k \in keys |-> IF IsWeight(k, L) THEN w[k]
                      ELSE IF IsGamma(k, L) THEN 1 ELSE 0]
      : w \in [{k \in keys : IsWeight(k, L)} -> WInitSet] }

FcInitDropoutParam(dropout, seed) ==
    IF dropout > 0
    THEN IF seed # NoSeed
         THEN [mode |-> "train", p |-> dropout, seed |-> seed]
         ELSE [mode |-> "train", p |-> dropout]
    ELSE EmptyDict

FcInitBnParams(L, batchnorm) ==
    IF batchnorm THEN [i \in 1..(L - 1) |-> [mode |-> "train"]] ELSE <<>>

NoRet == [kind |-> "none"]

NoCache == [kind |-> "none"]

NoNet == [bn_params |-> <<>>, dropout_param |-> EmptyDict]

\* The running statistics batch normalization would use at test time.
RunningStats(bn) ==
    [i \in DOMAIN bn |-> <<DictGet(bn[i], "running_mean", 0),
                          DictGet(bn[i], "running_var", 0)>>]

\* FullyConnectedNet.loss: the mode switch of the batch-normalization
\* dictionaries, bn_param[mode] = mode.
FcSetBnModes(bn, mode) == [i \in DOMAIN bn |-> DictSet(bn[i], mode, mode)]

FcSetDropoutMode(dp, mode) == DictSet(dp, "mode", mode)

RECURSIVE FcForwardDropout(_, _, _, _)
\* The forward loop of FullyConnectedNet.loss over n blocks on a batch of
\* rows examples, the hidden layers being one unit wide: the mask each
\* dropout call made, first block first, and the generator the loop leaves.
FcForwardDropout(dp, g, n, rows) ==
    IF n = 0 THEN [masks |-> <<>>, rng |-> g]
    ELSE LET before == FcForwardDropout(dp, g, n - 1, rows)
             r == DropoutForward([j \in 1 .. rows |-> 1], dp, before.rng)
         IN  [masks |-> Append(before.masks, r.mask), rng |-> r.rng]

\* The forward loop of FullyConnectedNet.loss over the first L - 1 blocks:
\* what each batch-normalization call does to its dictionary.
FcForwardBn(bn, out) ==
    [i \in DOMAIN bn |-> BatchnormForward(bn[i], out.mean, out.var)]

RECURSIVE FcRegSum(_, _)
\* reg_sum as the forward loop accumulates it: over range(num_layers - 1)
FcRegSum(params, n) ==
    IF n = 0 THEN 0 ELSE FcRegSum(params, n - 1) + params[Key("W", n)] ^ 2

\* A variant of the gradient mapping that leaves out gamma and beta.
FcGradsWithoutBatchnorm(params, L, batchnorm, r, g) ==
    [k \in {Key("W", i) : i \in 1..L} \cup {Key("b", i) : i \in 1..L} |-> g]

\* The backward pass of FullyConnectedNet.loss: the gradient mapping, built
\* key by key as the code assigns it; g is the back-propagated gradient.
FcGrads(params, L, batchnorm, r, g) ==
    LET last == {Key("W", L), Key("b", L)}
        block(i) == {Key("W", i + 1), Key("b", i + 1)} \cup
                    (IF batchnorm THEN {Key("gamma", i + 1), Key("beta", i + 1)}
                                  ELSE {})
        keys == last \cup UNION {block(i) : i \in 0..(L - 2)}
    IN  [k \in keys |->
            IF k \in {Key("W", i + 1) : i \in 0..(L - 2)}
            THEN g + r * params[k]
            ELSE g]

\* The loss FullyConnectedNet.loss returns: softmax loss + 0.5 * reg * reg_sum
FcLossValue(params, L, r, data_loss) ==
    data_loss + (r * FcRegSum(params, L - 1)) \div 2

TwoLayerLossValue(params, r, data_loss) ==
    data_loss + (r * (params["W1"] ^ 2 + params["W2"] ^ 2)) \div 2

TwoLayerGrads(params, r, g) ==
    [k \in {"W1", "W2", "b1", "b2"} |->
        IF k \in {"W1", "W2"} THEN g + r * params[k] ELSE g]

\* The state of a network that is not in use.
NetIdle ==
    /\ net_class = "TwoLayerNet"
    /\ num_layers = 2
    /\ use_batchnorm = FALSE
    /\ use_dropout = FALSE
    /\ reg = 0
    /\ bn_params = <<>>
    /\ dropout_param = EmptyDict
    /\ bn_cache = NoCache
    /\ dropout_cache = NoCache
    /\ quiet_net = NoNet
    /\ rng = FreshGenerator
    /\ ncalls = 0
    /\ ret = NoRet

\* The variables of a Solver that is not in use or not constructed yet.
SolverBlank ==
    /\ num_train = 1
    /\ batch_size = 1
    /\ num_epochs = 0
    /\ early_stopping = -1
    /\ lr_decay = 1
    /\ optim_config = [learning_rate |-> 1]
    /\ lr_is_array = FALSE
    /\ heap = <<>>
    /\ verbose = FALSE
    /\ epoch = 0
    /\ best_val_acc = 0
    /\ best_params = EmptyDict
    /\ early_stopping_counter = -1
    /\ loss_history = <<>>
    /\ val_loss_history = <<>>
    /\ train_acc_history = <<>>
    /\ val_acc_history = <<>>
    /\ optim_configs = EmptyDict
    /\ t = 0
    /\ stopped = FALSE
    /\ ckpt_params = <<>>
    /\ ckpt_iters = <<>>
    /\ report = NoReport
    /\ acc_call = NoCall
    /\ params_is_best = FALSE
    /\ train_calls = 1
    /\ update_rule = "sgd"
    /\ extra_kwargs = {}
    /\ solver_attrs = {}

SolverIdle == SolverBlank /\ pc = "idle"

\* A network as its constructor leaves it.
NetInit ==
    /\ net_class \in {"TwoLayerNet", "FullyConnectedNet"}
    /\ reg \in RegSet
    /\ IF net_class = "TwoLayerNet"
          THEN /\ num_layers = 2
               /\ use_batchnorm = FALSE
               /\ use_dropout = FALSE
               /\ bn_params = <<>>
               /\ dropout_param = EmptyDict
               /\ model_params \in InitialStores(TwoLayerKeys, 2)
          ELSE /\ num_layers \in 1..MaxLayers
               /\ use_batchnorm \in BOOLEAN
               /\ \E dropout \in DropoutTenthsSet, seed \in SeedSet :
                     /\ use_dropout = (dropout > 0)
                     /\ dropout_param = FcInitDropoutParam(dropout, seed)
               /\ bn_params = FcInitBnParams(num_layers, use_batchnorm)
               /\ model_params \in InitialStores(FcInitKeys(num_layers, use_batchnorm),
                                                 num_layers)
    /\ bn_cache = NoCache
    /\ dropout_cache = NoCache
    /\ quiet_net = NoNet
    /\ rng = FreshGenerator
    /\ ncalls = 0
    /\ ret = NoRet
    /\ SolverIdle

SolverUnchanged == UNCHANGED solverVars

NetConfigUnchanged ==
    UNCHANGED <<net_class, num_layers, use_batchnorm, use_dropout, reg, quiet_net,
                bn_cache, dropout_cache>>

\* TwoLayerNet.loss(X, y), y given or not
TwoLayerNetLoss ==
    /\ net_class = "TwoLayerNet"
    /\ ncalls < MaxCalls
    /\ \E y_given \in BOOLEAN, out \in BatchOutcomes :
          ret' = IF y_given
                 THEN [kind |-> "loss", y_given |-> TRUE, data_loss |-> out.loss,
                       g |-> out.g,
                       loss |-> TwoLayerLossValue(model_params, reg, out.loss),
                       grads |-> TwoLayerGrads(model_params, reg, out.g),
                       bn_modes |-> <<>>, bn_used |-> <<>>, dropout_modes |-> <<>>,
                       stats_before |-> <<>>]
                 ELSE [kind |-> "scores", y_given |-> FALSE,
                       bn_modes |-> <<>>, bn_used |-> <<>>, dropout_modes |-> <<>>,
                       stats_before |-> <<>>]
    /\ ncalls' = ncalls + 1
    /\ UNCHANGED <<bn_params, dropout_param, rng>>
    /\ NetConfigUnchanged
    /\ SolverUnchanged

\* FullyConnectedNet.loss(X, y), y given or not
FullyConnectedNetLoss ==
    /\ net_class = "FullyConnectedNet"
    /\ ncalls < MaxCalls
    /\ \E y_given \in BOOLEAN, out \in BatchOutcomes :
          LET mode == IF y_given THEN "train" ELSE "test"
              dp == FcSetDropoutMode(dropout_param, mode)
              bn == FcSetBnModes(bn_params, mode)
              fwd == FcForwardBn(bn, out)
              rows == 1 + out.g
              dropped == IF use_dropout
                         THEN FcForwardDropout(dp, rng, num_layers - 1, rows)
                         ELSE [masks |-> <<>>, rng |-> rng]
              bn_modes == [i \in DOMAIN bn |-> bn[i]["mode"]]
              dropout_modes == IF use_dropout
                                  THEN [i \in 1..(num_layers - 1) |-> dp["mode"]]
                                  ELSE <<>>
          IN  /\ dropout_param' = dp
              /\ bn_params' = [i \in DOMAIN bn |-> fwd[i].bn_param]
              /\ rng' = dropped.rng
              /\ ret' =
                   IF \E i \in DOMAIN fwd : fwd[i].raised
                   THEN [kind |-> "raised", y_given |-> y_given,
                         bn_modes |-> bn_modes, dropout_modes |-> dropout_modes,
                         bn_used |-> [i \in DOMAIN fwd |-> fwd[i].used],
                         stats_before |-> RunningStats(bn_params)]
                   ELSE IF mode = "test"
                   THEN [kind |-> "scores", y_given |-> y_given,
                         bn_modes |-> bn_modes, dropout_modes |-> dropout_modes,
                         bn_used |-> [i \in DOMAIN fwd |-> fwd[i].used],
                         stats_before |-> RunningStats(bn_params)]
                   ELSE [kind |-> "loss", y_given |-> y_given, data_loss |-> out.loss,
                         g |-> out.g,
                         rows |-> rows, masks |-> dropped.masks,
                         rng_before |-> rng,
                         loss |-> FcLossValue(model_params, num_layers, reg, out.loss),
                         grads |-> FcGrads(model_params, num_layers, use_batchnorm,
                                           reg, out.g),
                         bn_modes |-> bn_modes, dropout_modes |-> dropout_modes,
                         bn_used |-> [i \in DOMAIN fwd |-> fwd[i].used],
                         stats_before |-> RunningStats(bn_params)]
    /\ ncalls' = ncalls + 1
    /\ NetConfigUnchanged
    /\ SolverUnchanged

\* Some other caller draws a number from np.random.
GeneratorDraw ==
    /\ rng.drawn < MaxDrawn
    /\ rng' = Advance(rng, 1)
    /\ UNCHANGED <<net_class, num_layers, use_batchnorm, use_dropout, reg,
                   quiet_net, bn_params, dropout_param, bn_cache,
                   dropout_cache, ncalls, ret>>
    /\ SolverUnchanged

NetNext == TwoLayerNetLoss \/ FullyConnectedNetLoss \/ GeneratorDraw

NetSpec == NetInit /\ [][NetNext]_vars

-----------------------------------------------------------------------------
(* The training run of a Solver on a network whose loss() is drawn from     *)
(* LossOutcomes and EvalOutcomes                                            *)

Init == SolverInit /\ NetIdle

Next == Step \/ Checkpoint \/ Finish

Spec == Init /\ [][Next]_vars

-----------------------------------------------------------------------------
(* The training run of a Solver on a model whose loss() may raise           *)

\* A variant of StepRaises in which train() catches the error and goes on to
\* its last line.
StepRaisesAndRestores ==
    /\ pc = "loop"
    /\ t < NumIterations
    /\ pc' = "failed"
    /\ model_params' = best_params
    /\ UNCHANGED <<Config, epoch, best_val_acc, best_params,
                   early_stopping_counter, loss_history, val_loss_history,
                   train_acc_history, val_acc_history, optim_configs, heap, t,
                   stopped, ckpt_params, ckpt_iters, report, acc_call,
                   params_is_best, train_calls>>
    /\ UNCHANGED netVars

\* model.loss(X_batch, y_batch) raises inside _step(): the exception leaves
\* _step() before anything is stored and leaves train(), which has no handler.
StepRaises ==
    /\ pc = "loop"
    /\ t < NumIterations
    /\ pc' = "failed"
    /\ UNCHANGED <<Config, model_params, epoch, best_val_acc, best_params,
                   early_stopping_counter, loss_history, val_loss_history,
                   train_acc_history, val_acc_history, optim_configs, heap, t,
                   stopped, ckpt_params, ckpt_iters, report, acc_call,
                   params_is_best, train_calls>>
    /\ UNCHANGED netVars

FaultNext == Step \/ StepRaises \/ Checkpoint \/ Finish

FaultSpec == Init /\ [][FaultNext]_vars

-----------------------------------------------------------------------------
(* train() called again on the same Solver.  Nothing is reset between the   *)
(* calls: the second call goes on from the histories, the epoch count, the  *)
(* best values and the patience counter the first one left, and from a      *)
(* model.params that is the best_params dictionary itself.                  *)

MaxTrains == 2

\* solver.train() once more, up to the head of the loop
TrainAgain ==
    /\ pc = "done"
    /\ train_calls < MaxTrains
    /\ train_calls' = train_calls + 1
    /\ pc' = "loop"
    /\ t' = 0
    /\ stopped' = FALSE
    /\ UNCHANGED <<Config, model_params, epoch, best_val_acc, best_params,
                   early_stopping_counter, loss_history, val_loss_history,
                   train_acc_history, val_acc_history, optim_configs, heap,
                   ckpt_params, ckpt_iters, report, acc_call, params_is_best>>
    /\ UNCHANGED netVars

RetrainInit ==
    /\ Init
    /\ lr_decay = 1
    /\ ~ verbose
    /\ num_epochs <= 2

RetrainNext == Step \/ Checkpoint \/ Finish \/ TrainAgain

RetrainSpec == RetrainInit /\ [][RetrainNext]_vars

-----------------------------------------------------------------------------
(* The training run of a Solver on a FullyConnectedNet: every model.loss    *)
(* call of _step, of check_accuracy and of the verbose report acts on the   *)
(* net's layer dictionaries.  Next to the run, quiet_net follows the layer  *)
(* dictionaries of the run that differs in verbose = False only and sees    *)
(* the same batches.  Over a run this long the running statistics are       *)
(* rounded down to a multiple of 1 / Scale.                                 *)

\* bn_params and dropout_param after FullyConnectedNet.loss ran in mode on a
\* batch with the statistics out.
FcLayerState(net, mode, out) ==
    LET fwd == FcForwardBn(FcSetBnModes(net.bn_params, mode), out)
    IN  [bn_params |-> [i \in DOMAIN fwd |-> fwd[i].bn_param],
         dropout_param |-> FcSetDropoutMode(net.dropout_param, mode)]

\* check_accuracy(X_train, y_train, num_samples=1000), then
\* check_accuracy(X_val, y_val): one loss(X) call each, the sets being
\* smaller than a batch of 100.
FcAfterEvaluation(net, train_out, val_out) ==
    FcLayerState(FcLayerState(net, "test", train_out), "test", val_out)

\* The report of verbose mode: self.model.loss(self.X_val, self.y_val)
FcAfterReport(net, val_out) == FcLayerState(net, "train", val_out)

\* The batch statistics that go with an accuracy.
EvalBatch(acc) == CHOOSE o \in BatchOutcomes : o.g = acc % 2

FcTrainInit ==
    /\ net_class = "FullyConnectedNet"
    /\ num_layers = 2
    /\ use_batchnorm \in BOOLEAN
    /\ use_dropout = FALSE
    /\ reg = 0
    /\ dropout_param = FcInitDropoutParam(0, NoSeed)
    /\ bn_params = FcInitBnParams(num_layers, use_batchnorm)
    /\ model_params \in {st \in InitialStores(FcInitKeys(num_layers, use_batchnorm),
                                              num_layers) :
                            \A k \in DOMAIN st : st[k] >= 0}
    /\ bn_cache = NoCache
    /\ dropout_cache = NoCache
    /\ quiet_net = [bn_params |-> bn_params, dropout_param |-> dropout_param]
    /\ rng = FreshGenerator
    /\ ncalls = 0
    /\ ret = NoRet
    /\ optim_config \in [learning_rate : LearningRateSet]
    /\ lr_is_array = FALSE
    /\ heap = <<>>
    /\ SolverStartOn(model_params)

\* The generator after loss() ran in mode on a batch of rows examples.
FcPass(g, mode, rows) ==
    IF use_dropout
    THEN FcForwardDropout(FcSetDropoutMode(dropout_param, mode), g,
                          num_layers - 1, rows).rng
    ELSE g

\* No forward pass was made yet.
NoPass == [mode |-> "none", rows |-> 0]

\* The forward pass made last, as ret tells it.
LastPass == IF "pass" \in DOMAIN ret THEN ret.pass ELSE NoPass

FcTrainUnchanged ==
    UNCHANGED <<net_class, num_layers, use_batchnorm, use_dropout, reg,
                bn_cache, dropout_cache, ncalls>>

FcStep ==
    /\ pc = "loop"
    /\ t < NumIterations
    /\ \E o \in BatchOutcomes :
          LET now == FcLayerState([bn_params |-> bn_params,
                                   dropout_param |-> dropout_param], "train", o)
          IN  /\ StepOn([loss |-> FcLossValue(model_params, num_layers, reg, o.loss),
                         grads |-> FcGrads(model_params, num_layers,
                                           use_batchnorm, reg, o.g)])
              /\ bn_params' = now.bn_params
              /\ dropout_param' = now.dropout_param
              /\ quiet_net' = FcLayerState(quiet_net, "train", o)
    /\ rng' = FcPass(Advance(rng, batch_size), "train", batch_size)
    /\ ret' = [kind |-> "step", at |-> t, rng_at_start |-> rng,
               batch_mask |-> Choice(num_train, batch_size, rng),
               preceding |-> LastPass,
               pass |-> [mode |-> "train", rows |-> batch_size]]
    /\ FcTrainUnchanged

FcCheckpoint ==
    /\ pc = "check"
    /\ \E ev \in EvalOutcomes :
          LET train_out == EvalBatch(ev.train_acc)
              val_out == EvalBatch(ev.val_acc)
              evaluated == FcAfterEvaluation([bn_params |-> bn_params,
                                              dropout_param |-> dropout_param],
                                             train_out, val_out)
              now == IF verbose THEN FcAfterReport(evaluated, val_out)
                                ELSE evaluated
          IN  /\ CheckpointOn(ev)
              /\ bn_params' = now.bn_params
              /\ dropout_param' = now.dropout_param
              /\ quiet_net' = FcAfterEvaluation(quiet_net, train_out, val_out)
    /\ LET evaluated == FcPass(FcPass(rng, "test", num_train), "test", NumVal)
       IN  rng' = IF verbose THEN FcPass(evaluated, "train", NumVal)
                             ELSE evaluated
    /\ ret' = [kind |-> "checkpoint",
               pass |-> [mode |-> IF verbose THEN "train" ELSE "test",
                         rows |-> NumVal]]
    /\ FcTrainUnchanged

FcFinish ==
    /\ pc = "loop"
    /\ t >= NumIterations
    /\ FinishOn
    /\ UNCHANGED netVars

FcTrainNext == FcStep \/ FcCheckpoint \/ FcFinish

FcTrainSpec == FcTrainInit /\ [][FcTrainNext]_vars

-----------------------------------------------------------------------------
(* The training run of a Solver on a FullyConnectedNet with dropout layers, *)
(* with and without a seed.  The hidden layers are one unit wide, so a      *)
(* train-mode pass on a batch draws one number per example and dropout      *)
(* layer.                                                                   *)

SeedTrainInit ==
    /\ net_class = "FullyConnectedNet"
    /\ num_layers \in 2 .. MaxLayers
    /\ use_batchnorm = FALSE
    /\ use_dropout = TRUE
    /\ reg = 0
    /\ \E seed \in SeedSet : dropout_param = FcInitDropoutParam(5, seed)
    /\ bn_params = FcInitBnParams(num_layers, use_batchnorm)
    /\ model_params = [k \in FcInitKeys(num_layers, use_batchnorm) |->
                          IF IsWeight(k, num_layers) THEN 2 ELSE 0]
    /\ bn_cache = NoCache
    /\ dropout_cache = NoCache
    /\ quiet_net = [bn_params |-> bn_params, dropout_param |-> dropout_param]
    /\ rng = FreshGenerator
    /\ ncalls = 0
    /\ ret = NoRet
    /\ optim_config \in [learning_rate : LearningRateSet]
    /\ lr_is_array = FALSE
    /\ heap = <<>>
    /\ SolverStartOn(model_params)
    /\ lr_decay = 1
    /\ early_stopping = -1
    /\ num_epochs <= 2

SeedTrainSpec == SeedTrainInit /\ [][FcTrainNext]_vars

-----------------------------------------------------------------------------
(* The training run of a Solver whose optim_config['learning_rate'] is a    *)
(* float or a numpy array                                                   *)

\* optim_config = {'learning_rate': np.array(v)}: the array is the object at
\* address 1.
ArrayInit ==
    /\ optim_config = [learning_rate |-> 1]
    /\ lr_is_array = TRUE
    /\ heap \in [{1} -> LearningRateSet]
    /\ SolverStart

OptimInit == (SolverInit \/ ArrayInit) /\ NetIdle

OptimSpec == OptimInit /\ [][Next]_vars

-----------------------------------------------------------------------------
(* The construction of a Solver: Solver(model, data, **kwargs)              *)

UpdateRuleSet == {"sgd", "no_such_rule"}

ExtraKwargSet == {"learning_rate", "epochs"}

\* A variant of CtorRaises without the test of the update rule.
CtorRaisesOnKwargsOnly(extra, rule) == extra # {}

\* The two tests of __init__ that raise ValueError.
CtorRaises(extra, rule) == extra # {} \/ rule \notin OptimRules

CtorInit ==
    /\ SolverBlank
    /\ pc = "new"
    /\ model_params = InitParams
    /\ NetIdle

\* Solver.__init__: the attributes, the two tests, then _reset.
SolverConstruct ==
    /\ pc = "new"
    /\ num_train' \in NumTrainSet
    /\ batch_size' \in BatchSizeSet
    /\ num_epochs' \in NumEpochsSet
    /\ early_stopping' \in EarlyStoppingSet
    /\ lr_decay' \in LrDecaySet
    /\ optim_config' \in [learning_rate : LearningRateSet]
    /\ lr_is_array' = FALSE
    /\ heap' = heap
    /\ verbose' \in BOOLEAN
    /\ update_rule' \in UpdateRuleSet
    /\ extra_kwargs' \in SUBSET ExtraKwargSet
    /\ num_epochs' * Max(num_train' \div batch_size', 1) <= MaxIterations
    /\ IF CtorRaises(extra_kwargs', update_rule')
          THEN /\ solver_attrs' = CtorAttrs
               /\ pc' = "raised"
               /\ UNCHANGED <<epoch, best_val_acc, best_params,
                              early_stopping_counter, loss_history,
                              val_loss_history, train_acc_history,
                              val_acc_history, optim_configs>>
          ELSE /\ solver_attrs' = CtorAttrs \cup ResetAttrs
               /\ epoch' = 0
               /\ best_val_acc' = 0
               /\ best_params' = EmptyDict
               /\ early_stopping_counter' = early_stopping'
               /\ loss_history' = <<>>
               /\ val_loss_history' = <<>>
               /\ train_acc_history' = <<>>
               /\ val_acc_history' = <<>>
               /\ optim_configs' = ResetConfigs(model_params, optim_config')
               /\ pc' = "loop"
    /\ UNCHANGED <<model_params, t, stopped, ckpt_params, ckpt_iters, report, acc_call,
                   params_is_best, train_calls>>
    /\ UNCHANGED netVars

CtorSpec == CtorInit /\ [][SolverConstruct]_vars

-----------------------------------------------------------------------------
(* check_accuracy(X, y, num_samples, batch_size) called on its own.  An      *)
(* example is its row number in the data set the caller passed; the model    *)
(* classifies every example into one of two classes, the same way each time  *)
(* it sees it.  acc_call.calls lists the model.loss calls of the call under  *)
(* way, each with the rows it was given and the labels it was given (None:   *)
(* none).  The accuracy np.mean(y_pred == y) is kept as the number of        *)
(* matches and the number of entries the mean is taken over.                 *)

MaxExamples == 3

ClassSet == {0, 1}

NumSamplesSet == {-1} \cup (0 .. 2)     \* -1: num_samples is None

AccBatchSizeSet == 1 .. 2

Min(a, b) == IF a <= b THEN a ELSE b

\* X[start:end] of a list, 0-based, 0 <= start <= end
Slice(X, start, end) == SubSeq(X, start + 1, Min(end, Len(X)))

\* X[mask]
Take(X, mask) == [j \in DOMAIN mask |-> X[mask[j] + 1]]

\* A variant of NumBatches that leaves the remainder out.
NumBatchesWithoutRemainder(N, size) == N \div size

\* num_batches of N examples in batches of size
NumBatches(N, size) ==
    IF N % size # 0 THEN N \div size + 1 ELSE N \div size

RECURSIVE Hstack(_)
\* np.hstack of a non-empty list of arrays
Hstack(arrays) ==
    IF arrays = <<>> THEN <<>> ELSE Head(arrays) \o Hstack(Tail(arrays))

\* how many entries of y_pred == y are True; arrays of different lengths
\* compare unequal as a whole
Matches(y_pred, y) ==
    IF Len(y_pred) # Len(y) THEN 0
    ELSE Cardinality({j \in DOMAIN y : y_pred[j] = y[j]})

AccInit ==
    /\ SolverIdle
    /\ model_params = EmptyDict
    /\ NetIdle

\* Everything of the Solver that check_accuracy does not touch.
AccUnchanged ==
    /\ UNCHANGED <<Config, model_params, epoch, best_val_acc, best_params,
                   early_stopping_counter, loss_history, val_loss_history,
                   train_acc_history, val_acc_history, optim_configs, heap, t,
                   pc, stopped, ckpt_params, ckpt_iters, report,
                   params_is_best, train_calls>>
    /\ UNCHANGED netVars

\* check_accuracy up to the head of its loop: the subsample, if one is
\* taken, and the number of batches.
CheckAccuracyCall ==
    /\ acc_call.pc = "none"
    /\ \E n \in 0 .. MaxExamples, num_samples \in NumSamplesSet,
          size \in AccBatchSizeSet :
         \E y \in [1 .. n -> ClassSet], predict \in [1 .. n -> ClassSet] :
            LET X == [j \in 1 .. n |-> j]
                sub == num_samples # -1 /\ n > num_samples
                N == IF sub THEN num_samples ELSE n
            IN  \E mask \in [1 .. N -> 0 .. (n - 1)] :
                  /\ sub \/ mask = [j \in 1 .. N |-> j - 1]
                  /\ acc_call' = [pc |-> "batches",
                                  given |-> n,
                                  num_samples |-> num_samples,
                                  predict |-> predict,
                                  N |-> N,
                                  X |-> IF sub THEN Take(X, mask) ELSE X,
                                  y |-> IF sub THEN Take(y, mask) ELSE y,
                                  batch_size |-> size,
                                  num_batches |-> NumBatches(N, size),
                                  i |-> 0,
                                  y_pred |-> <<>>,
                                  calls |-> <<>>,
                                  matches |-> 0,
                                  of |-> 0]
    /\ AccUnchanged

\* One pass of the loop: the scores of one slice and their arg-max classes.
CheckAccuracyBatch ==
    /\ acc_call.pc = "batches"
    /\ acc_call.i < acc_call.num_batches
    /\ LET start == acc_call.i * acc_call.batch_size
           end == (acc_call.i + 1) * acc_call.batch_size
           rows == Slice(acc_call.X, start, end)
       IN  acc_call' = [acc_call EXCEPT
                          !.calls = Append(@, [X |-> rows, y |-> None]),
                          !.y_pred = Append(@, [j \in DOMAIN rows |->
                                                  acc_call.predict[rows[j]]]),
                          !.i = @ + 1]
    /\ AccUnchanged

\* The loop is over: np.hstack, which raises ValueError on an empty list,
\* and the mean.
CheckAccuracyReturn ==
    /\ acc_call.pc = "batches"
    /\ acc_call.i >= acc_call.num_batches
    /\ IF acc_call.y_pred = <<>>
          THEN acc_call' = [acc_call EXCEPT !.pc = "raised"]
          ELSE acc_call' = [acc_call EXCEPT
                              !.pc = "returned",
                              !.matches = Matches(Hstack(acc_call.y_pred),
                                                  acc_call.y),
                              !.of = Len(acc_call.y)]
    /\ AccUnchanged

AccNext == CheckAccuracyCall \/ CheckAccuracyBatch \/ CheckAccuracyReturn

AccSpec == AccInit /\ [][AccNext]_vars

-----------------------------------------------------------------------------
(* Batch normalization called on its own: batchnorm_forward(x, gamma, beta,  *)
(* bn_param) on one dictionary whose mode the caller sets.  x has two rows   *)
(* and one column; the rows differ by 2, so that the batch variance is 1 and *)
(* the square root and the reciprocal of the forward pass are exact (eps is  *)
(* left out).                                                                *)

ModeSet == {"train", "test", "eval"}

BnBatchSet == {<<0, 2>>, <<3, 1>>}

GammaSet == {1, 2}

BetaSet == {0, 1}

Rows == 1..2

\* The intermediates of the train branch, as its cache holds them.
BatchnormTrainCache(x, gamma, beta) ==
    LET sample_mean == (x[1] + x[2]) \div 2
        x_minus_mean == [i \in Rows |-> x[i] - sample_mean]
        var == (x_minus_mean[1] ^ 2 + x_minus_mean[2] ^ 2) \div 2
        sqrtvar == CHOOSE r \in 0..var : r * r = var
        ivar == 1 \div sqrtvar
        x_norm == [i \in Rows |-> x_minus_mean[i] * ivar]
        out == [i \in Rows |-> gamma * x_norm[i] + beta]
    IN  [kind |-> "batchnorm", out |-> out, x_norm |-> x_norm, beta |-> beta,
         gamma |-> gamma, x_minus_mean |-> x_minus_mean, ivar |-> ivar,
         sqrtvar |-> sqrtvar, var |-> var, sample_mean |-> sample_mean]

BnDoutSet == { <<1, 1>>, <<2, 0>> }

\* batchnorm_backward(dout, cache), node by node as the code walks the graph
\* back.  The code's (1 / N) * dvar followed by 2 * x_minus_mean * dsq is
\* taken in one division, which is exact for the inputs above.
BatchnormBackward(dout, cache) ==
    LET xout == cache.out
        dbeta == dout[1] + dout[2]
        dgammax == dout
        dgamma == dgammax[1] * xout[1] + dgammax[2] * xout[2]
        dx_norm == [i \in Rows |-> cache.gamma * dgammax[i]]
        divar == dx_norm[1] * cache.x_minus_mean[1]
                   + dx_norm[2] * cache.x_minus_mean[2]
        dminus_mean_1 == [i \in Rows |-> dx_norm[i] * cache.ivar]
        dsqrtvar == (- divar) \div (cache.sqrtvar ^ 2)
        dvar == dsqrtvar \div (2 * cache.sqrtvar)
        dminus_mean_2 == [i \in Rows |-> (2 * cache.x_minus_mean[i] * dvar) \div 2]
        dx1 == [i \in Rows |-> dminus_mean_2[i] + dminus_mean_1[i]]
        dsample_mean == - (dx1[1] + dx1[2])
        dx2 == [i \in Rows |-> dsample_mean \div 2]
    IN  [dx |-> [i \in Rows |-> dx1[i] + dx2[i]], dgamma |-> dgamma,
         dbeta |-> dbeta]

BnInit ==
    /\ net_class = "TwoLayerNet"
    /\ num_layers = 2
    /\ use_batchnorm = FALSE
    /\ use_dropout = FALSE
    /\ reg = 0
    /\ \E m \in ModeSet : bn_params = << [mode |-> m] >>
    /\ dropout_param = EmptyDict
    /\ bn_cache = NoCache
    /\ dropout_cache = NoCache
    /\ quiet_net = NoNet
    /\ rng = FreshGenerator
    /\ ncalls = 0
    /\ ret = NoRet
    /\ model_params = EmptyDict
    /\ SolverIdle

\* The caller writes bn_param['mode'].
SetBnMode ==
    /\ \E m \in ModeSet \ {bn_params[1]["mode"]} :
          bn_params' = << DictSet(bn_params[1], "mode", m) >>
    /\ UNCHANGED <<net_class, num_layers, use_batchnorm, use_dropout, reg, quiet_net, rng,
                   dropout_param, bn_cache, dropout_cache, ncalls, ret>>
    /\ SolverUnchanged

\* out, cache = batchnorm_forward(x, gamma, beta, bn_param)
BatchnormForwardCall ==
    /\ ncalls < MaxCalls
    /\ \E x \in BnBatchSet, gamma \in GammaSet, beta \in BetaSet :
          LET c == BatchnormTrainCache(x, gamma, beta)
              r == BatchnormForward(bn_params[1], c.sample_mean * Scale,
                                    c.var * Scale)
          IN  /\ bn_params' = << r.bn_param >>
              /\ bn_cache' = IF r.raised THEN bn_cache
                             ELSE IF r.used = "batch" THEN c ELSE NoCache
              /\ ret' = [kind |-> "batchnorm_forward",
                         mode |-> bn_params[1]["mode"],
                         raised |-> r.raised, used |-> r.used,
                         bn_before |-> bn_params[1], bn_after |-> r.bn_param]
    /\ ncalls' = ncalls + 1
    /\ UNCHANGED <<net_class, num_layers, use_batchnorm, use_dropout, reg, quiet_net, rng,
                   dropout_param, dropout_cache>>
    /\ SolverUnchanged

\* dx, dgamma, dbeta = batchnorm_backward(dout, cache) on the cache of the
\* last train-mode forward call
BatchnormBackwardCall ==
    /\ ncalls < MaxCalls
    /\ bn_cache # NoCache
    /\ \E dout \in BnDoutSet :
          LET r == BatchnormBackward(dout, bn_cache)
          IN  ret' = [kind |-> "batchnorm_backward", dout |-> dout,
                      cache |-> bn_cache, dx |-> r.dx, dgamma |-> r.dgamma,
                      dbeta |-> r.dbeta]
    /\ ncalls' = ncalls + 1
    /\ UNCHANGED <<net_class, num_layers, use_batchnorm, use_dropout, reg, quiet_net, rng,
                   bn_params, dropout_param, bn_cache, dropout_cache>>
    /\ SolverUnchanged

BnNext == SetBnMode \/ BatchnormForwardCall \/ BatchnormBackwardCall

BnSpec == BnInit /\ [][BnNext]_vars

-----------------------------------------------------------------------------
(* Dropout called on its own: dropout_forward(x, dropout_param) and          *)
(* dropout_backward(dout, cache) on one dictionary whose mode the caller     *)
(* sets.  An array is a sequence of one entry, None is the empty sequence.   *)
(* The cache of a forward call is the pair (dropout_param, mask) whose first *)
(* component is the caller's dictionary itself, not a copy of it: the model  *)
(* keeps the mask, and reads the dictionary where the code reads it.         *)

ArraySet == { <<1>>, <<-3>> }

\* dropout_backward: dp is the dictionary of the cache as it is when the call
\* is made.  dout * None raises TypeError.
DropoutBackward(dout, mask, dp) ==
    LET mode == dp["mode"]
    IN  IF mode = "train"
        THEN IF mask = None
             THEN [raised |-> TRUE, dx |-> None]
             ELSE [raised |-> FALSE, dx |-> << dout[1] * mask[1] >>]
        ELSE IF mode = "test"
        THEN [raised |-> FALSE, dx |-> dout]
        ELSE [raised |-> FALSE, dx |-> None]

DropoutInit ==
    /\ net_class = "TwoLayerNet"
    /\ num_layers = 2
    /\ use_batchnorm = FALSE
    /\ use_dropout = FALSE
    /\ reg = 0
    /\ bn_params = <<>>
    /\ \E m \in ModeSet, q \in DropoutTenthsSet, seed \in SeedSet :
          dropout_param = IF seed # NoSeed
                          THEN [mode |-> m, p |-> q, seed |-> seed]
                          ELSE [mode |-> m, p |-> q]
    /\ bn_cache = NoCache
    /\ dropout_cache = NoCache
    /\ quiet_net = NoNet
    /\ rng = FreshGenerator
    /\ ncalls = 0
    /\ ret = NoRet
    /\ model_params = EmptyDict
    /\ SolverIdle

\* The caller writes dropout_param['mode'].
SetDropoutMode ==
    /\ \E m \in ModeSet \ {dropout_param["mode"]} :
          dropout_param' = DictSet(dropout_param, "mode", m)
    /\ UNCHANGED <<net_class, num_layers, use_batchnorm, use_dropout, reg, quiet_net, rng,
                   bn_params, bn_cache, dropout_cache, ncalls, ret>>
    /\ SolverUnchanged

\* out, cache = dropout_forward(x, dropout_param); the caller keeps the cache
\* for a later backward call, or goes on holding the one it kept before.
DropoutForwardCall ==
    /\ ncalls < MaxCalls
    /\ \E x \in ArraySet, keep \in BOOLEAN :
          LET r == DropoutForward(x, dropout_param, rng)
          IN  /\ ret' = [kind |-> "dropout_forward", raised |-> r.raised,
                         out |-> r.out, mask |-> r.mask, rng_before |-> rng]
              /\ rng' = r.rng
              /\ dropout_cache' =
                    IF keep /\ ~ r.raised
                    THEN [kind |-> "dropout", mask |-> r.mask,
                          forward_mode |-> dropout_param["mode"]]
                    ELSE dropout_cache
    /\ ncalls' = ncalls + 1
    /\ UNCHANGED <<net_class, num_layers, use_batchnorm, use_dropout, reg, quiet_net,
                   bn_params, dropout_param, bn_cache>>
    /\ SolverUnchanged

\* dx = dropout_backward(dout, cache) on the cache that was kept
DropoutBackwardCall ==
    /\ ncalls < MaxCalls
    /\ dropout_cache # NoCache
    /\ \E dout \in ArraySet :
          LET r == DropoutBackward(dout, dropout_cache.mask, dropout_param)
          IN  ret' = [kind |-> "dropout_backward", raised |-> r.raised,
                      dx |-> r.dx, dout |-> dout, cache |-> dropout_cache]
    /\ ncalls' = ncalls + 1
    /\ UNCHANGED <<net_class, num_layers, use_batchnorm, use_dropout, reg, quiet_net, rng,
                   bn_params, dropout_param, bn_cache, dropout_cache>>
    /\ SolverUnchanged

DropoutNext ==
    SetDropoutMode \/ DropoutForwardCall \/ DropoutBackwardCall \/ GeneratorDraw

DropoutSpec == DropoutInit /\ [][DropoutNext]_vars

-----------------------------------------------------------------------------
(* Properties of Solver.train() *)

\* The checkpoints of the run so far, by position in val_acc_history.
Checkpoints == 1..Len(val_acc_history)

\* The earliest checkpoint with the highest validation accuracy of the run.
BestCheckpoint ==
    CHOOSE i \in Checkpoints :
        /\ \A j \in Checkpoints : val_acc_history[j] <= val_acc_history[i]
        /\ \A j \in 1..(i - 1) : val_acc_history[j] < val_acc_history[i]

RECURSIVE ScanCheckpoints(_)
\* <<the highest validation accuracy among the first n checkpoints (0 when
\* there is none), how many checkpoints have passed since the last one that
\* exceeded every accuracy before it>>
ScanCheckpoints(n) ==
    IF n = 0 THEN <<0, 0>>
    ELSE LET before == ScanCheckpoints(n - 1)
         IN  IF val_acc_history[n] > before[1]
             THEN <<val_acc_history[n], 0>>
             ELSE <<before[1], before[2] + 1>>

\* How many checkpoints have passed since the last improving one.
NonImprovingRun == ScanCheckpoints(Len(val_acc_history))[2]

\* C1: once train() has returned, model.params is the snapshot of the
\* parameters taken at the checkpoint with the highest validation accuracy of
\* the run, the earliest one on ties.
C1_BestSnapshotRestored ==
    (pc = "done" /\ Checkpoints # {}) => model_params = ckpt_params[BestCheckpoint]

\* C2: model.params always has the keys it had when the network was built,
\* also after a run without any improving checkpoint or with num_epochs = 0.
C2_ParamKeysStable == DOMAIN model_params = ParamKeys

C4_NegativePatienceRunsAll ==
    early_stopping < 0 =>
        /\ ~ stopped
        /\ Len(loss_history) <= num_epochs * Max(num_train \div batch_size, 1)
        /\ pc = "done" =>
              Len(loss_history) = num_epochs * Max(num_train \div batch_size, 1)
        /\ pc # "done" => ENABLED Next

C4_Witness ==
    /\ early_stopping < 0
    /\ pc = "done"
    /\ Len(val_acc_history) >= 3
    /\ best_val_acc = 0
    /\ Len(loss_history) = MaxIterations

\* C5: train() leaves its loop early only at an iteration t that ends an
\* epoch, (t + 1) % iterations_per_epoch = 0.
C5_StopOnlyAtEpochEnd == stopped => (t + 1) % IterationsPerEpoch = 0

\* C6: the epoch counter is the number of completed blocks of
\* iterations_per_epoch steps, every parameter's learning rate is the initial
\* one times lr_decay^epoch, and a run that was not stopped early ends with
\* epoch = num_epochs.
C6_EpochAndLearningRate ==
    /\ epoch = Len(loss_history) \div Max(num_train \div batch_size, 1)
    /\ DOMAIN optim_configs = ParamKeys
    /\ \A p \in DOMAIN optim_configs :
          optim_configs[p].learning_rate = optim_config.learning_rate * lr_decay ^ epoch
    /\ (pc = "done" /\ ~ stopped) => epoch = num_epochs

C6_Witness ==
    /\ pc = "done"
    /\ ~ stopped
    /\ epoch = 2
    /\ lr_decay = 2
    /\ IterationsPerEpoch = 2
    /\ optim_configs["W1"].learning_rate = 12

\* train() is at the head of its loop right after an epoch ended, or is over.
AtEpochBoundaryOrDone ==
    \/ pc = "done"
    \/ pc = "loop" /\ Len(loss_history) > 0
                   /\ Len(loss_history) % IterationsPerEpoch = 0

CheckpointIterations ==
    {ckpt_iters[j] : j \in DOMAIN ckpt_iters} \cup (IF pc = "check" THEN {t} ELSE {})

\* C19: an evaluation checkpoint is made at iteration t exactly when t = 0 or
\* (t + 1) % iterations_per_epoch = 0, once each; the last-iteration test is
\* false at every iteration of the loop; and the last iteration of a run that
\* is not stopped early is evaluated.
C19_CheckpointIterations ==
    /\ CheckpointIterations =
          {i \in 0..(Len(loss_history) - 1) :
               i = 0 \/ (i + 1) % IterationsPerEpoch = 0}
    /\ Len(ckpt_iters) = Cardinality({ckpt_iters[j] : j \in DOMAIN ckpt_iters})
    /\ Len(ckpt_iters) = Len(val_acc_history)
    /\ \A i \in 0..(NumIterations - 1) : ~ LastIt(i)
    /\ (pc = "done" /\ ~ stopped /\ NumIterations > 0) =>
          ckpt_iters[Len(ckpt_iters)] = NumIterations - 1

C19_Witness ==
    /\ pc = "done"
    /\ ~ stopped
    /\ IterationsPerEpoch = 2
    /\ ckpt_iters = <<0, 1, 3>>

\* C18: when model.loss raises inside _step the error leaves train(): the
\* step changes no entry of model.params or optim_configs, appends nothing to
\* loss_history, model.params is not replaced by the best snapshot, and
\* nothing of train() runs afterwards.
C18_FailedStepChangesNothing ==
    [][ /\ pc # "failed"
        /\ pc' = "failed" =>
              /\ model_params' = model_params
              /\ optim_configs' = optim_configs
              /\ heap' = heap
              /\ loss_history' = loss_history ]_vars

C18_Witness ==
    /\ pc = "failed"
    /\ Len(loss_history) >= 2
    /\ best_params # EmptyDict
    /\ model_params # best_params
    /\ model_params # InitParams

\* C17: reporting has no effect on training.  On the same model, data and
\* draws the run with verbose = True makes the same steps and checkpoints as
\* the run with verbose = False and leaves the model in the same state: the
\* running statistics of the net's batch-normalization layers are those of
\* the run without reports.
C17_VerboseLeavesModelStateAlone ==
    RunningStats(bn_params) = RunningStats(quiet_net.bn_params)

\* C14: every parameter owns an independent optimizer record: a change made
\* to one record (the learning-rate decay of train(), the state an update
\* rule writes), also one made to a mutable value that came from
\* optim_config, shows neither in another parameter's record nor in the base
\* optim_config.  So the base learning rate stays the configured one, and a
\* record's learning rate has been decayed by its own decays only, one per
\* epoch.
C14_IndependentOptimRecords ==
    /\ LrValue(optim_config) \in LearningRateSet
    /\ \A p \in DOMAIN optim_configs :
          LrValue(optim_configs[p]) = LrValue(optim_config) * lr_decay ^ epoch

-----------------------------------------------------------------------------
(* Properties of the networks' loss() *)

Called == ncalls > 0

WantedMode == IF ret.y_given THEN "train" ELSE "test"

\* C7: every call of loss(X, y) with labels, of either network, returns a
\* loss and a gradient mapping whose keys are exactly those of params.
C7_GradKeysMatchParams ==
    (Called /\ ret.y_given) =>
        /\ ret.kind = "loss"
        /\ DOMAIN ret.grads = DOMAIN model_params

C7_Witness ==
    /\ Called
    /\ ret.kind = "loss"
    /\ net_class = "FullyConnectedNet"
    /\ num_layers = 3
    /\ use_batchnorm
    /\ use_dropout
    /\ Cardinality(DOMAIN ret.grads) = 10

\* C8: in FullyConnectedNet.loss every batch-normalization layer and every
\* dropout layer runs with mode 'test' when y is absent and with mode 'train'
\* when y is given.
C8_LayerModesFollowCall ==
    (Called /\ net_class = "FullyConnectedNet") =>
        /\ \A i \in DOMAIN ret.bn_modes : ret.bn_modes[i] = WantedMode
        /\ \A i \in DOMAIN ret.dropout_modes : ret.dropout_modes[i] = WantedMode

\* C9: a call of FullyConnectedNet.loss(X) without labels normalizes with the
\* running statistics and leaves the running mean and variance of every
\* batch-normalization layer as they were.
C9_TestCallKeepsRunningStats ==
    (Called /\ net_class = "FullyConnectedNet" /\ ~ ret.y_given) =>
        /\ \A i \in DOMAIN ret.bn_used : ret.bn_used[i] = "running"
        /\ RunningStats(bn_params) = ret.stats_before

\* C10: the loss FullyConnectedNet.loss(X, y) returns is the softmax loss plus
\* 0.5 * reg * the sum of the squared weights of all layers W1..WL.
C10_LossRegularizesAllLayers ==
    (Called /\ net_class = "FullyConnectedNet" /\ ret.kind = "loss") =>
        ret.loss = ret.data_loss + (reg * FcRegSum(model_params, num_layers)) \div 2

\* C11: in FullyConnectedNet.loss(X, y) the gradient of every weight matrix
\* W1..WL, the last layer's included, is the back-propagated gradient plus
\* reg * W; the gradients of b, gamma and beta carry no regularization term.
C11_GradRegularizesAllLayers ==
    (Called /\ net_class = "FullyConnectedNet" /\ ret.kind = "loss") =>
        \A k \in DOMAIN ret.grads :
            ret.grads[k] = IF IsWeight(k, num_layers)
                           THEN ret.g + reg * model_params[k]
                           ELSE ret.g

-----------------------------------------------------------------------------
(* Properties of the construction of a Solver *)

\* C12: a construction with an unknown keyword argument or with an update
\* rule the optim module does not have raises ValueError before _reset: the
\* Solver has no history, counter or optimizer record, and the model's
\* parameters are as they were.
C12_FailedConstructionBeforeReset ==
    (pc # "new" /\ (extra_kwargs # {} \/ update_rule \notin OptimRules)) =>
        /\ pc = "raised"
        /\ solver_attrs \cap ResetAttrs = {}
        /\ optim_configs = EmptyDict
        /\ loss_history = <<>> /\ val_loss_history = <<>>
        /\ train_acc_history = <<>> /\ val_acc_history = <<>>
        /\ model_params = InitParams

C12_Witness ==
    /\ pc = "raised"
    /\ extra_kwargs = {}
    /\ update_rule \notin OptimRules
    /\ solver_attrs = CtorAttrs

\* A Solver that was constructed is at the head of train() as SolverInit
\* describes it.
CtorAgreesWithSolverInit == pc = "loop" => SolverInit

-----------------------------------------------------------------------------
(* Properties of the layers called on their own *)

\* C13: batchnorm_forward called with a mode other than 'train' and 'test'
\* raises ValueError, normalizes with no statistics at all, and leaves
\* bn_param, its running mean and variance included, exactly as it was.
C13_BadModeRaisesAndKeepsBnParam ==
    (ret.kind = "batchnorm_forward" /\ ret.mode \notin {"train", "test"}) =>
        /\ ret.raised
        /\ ret.used = "none"
        /\ ret.bn_after = ret.bn_before

C13_Witness ==
    /\ ret.kind = "batchnorm_forward"
    /\ ret.mode = "eval"
    /\ ret.raised
    /\ DictGet(ret.bn_before, "running_mean", 0) # 0
    /\ bn_cache # NoCache

\* C20: batchnorm_backward returns, for every gamma and beta, dgamma = the
\* sum over the rows of dout * x_norm, x_norm being the normalized input
\* before scale and shift, and dbeta = the sum over the rows of dout.
C20_ScaleAndShiftGradients ==
    ret.kind = "batchnorm_backward" =>
        /\ ret.dgamma = ret.dout[1] * ret.cache.x_norm[1]
                           + ret.dout[2] * ret.cache.x_norm[2]
        /\ ret.dbeta = ret.dout[1] + ret.dout[2]

\* C16: dropout_backward on the cache of a train-mode forward call returns
\* dout * mask with the mask of that call, and on the cache of a test-mode
\* forward call returns dout, whatever forward calls and mode changes were
\* made on the same dropout_param in between.
C16_BackwardFollowsForwardOfCache ==
    ret.kind = "dropout_backward" =>
        /\ ~ ret.raised
        /\ ret.dx = IF ret.cache.forward_mode = "train"
                    THEN << ret.dout[1] * ret.cache.mask[1] >>
                    ELSE ret.dout

-----------------------------------------------------------------------------
(* The verbose epoch report.                                                 *)

\* The losses the steps of the epoch that ends at iteration i recorded:
\* loss_history[i - iterations_per_epoch + 1 .. i] in 0-based indices.
EpochLosses(i) == SubSeq(loss_history, i - IterationsPerEpoch + 2, i + 1)

\* C21: the average train loss given to the verbose report at the epoch
\* boundary at iteration t is the mean of exactly the iterations_per_epoch
\* losses of that epoch, for the first epoch and for every later one.
C21_ReportAveragesEpochLosses ==
    report # NoReport =>
        /\ report.divisor = IterationsPerEpoch
        /\ Len(EpochLosses(report.at)) = IterationsPerEpoch
        /\ report.loss_sum = SeqSum(EpochLosses(report.at))

\* A report of the second epoch of a run with one iteration per epoch: the
\* slice also holds the last loss of the epoch before.
C21_LaterEpochCountsOneLossTooMany ==
    /\ report.at = 1
    /\ IterationsPerEpoch = 1
    /\ report.loss_sum = loss_history[1] + loss_history[2]

\* A report of the first epoch of a run with two iterations per epoch: the
\* slice holds the last loss only.
C21_FirstEpochCountsLastLossOnly ==
    /\ report.at = 1
    /\ IterationsPerEpoch = 2
    /\ report.loss_sum = loss_history[2]
    /\ report.divisor = 2

-----------------------------------------------------------------------------
(* check_accuracy.                                                           *)

\* The rows the model was given, call after call.
RowsSeen == Hstack([j \in DOMAIN acc_call.calls |-> acc_call.calls[j].X])

CheckAccuracyDone == acc_call.pc \in {"returned", "raised"}

\* What the call does up to the end of its loop: ceil(N / batch_size)
\* forward passes, none of them with labels, over consecutive slices that
\* cover every example once and in order.
CheckAccuracyPasses ==
    /\ Len(acc_call.calls) * acc_call.batch_size >= acc_call.N
    /\ (Len(acc_call.calls) - 1) * acc_call.batch_size < Max(acc_call.N, 1)
       \/ (acc_call.N = 0 /\ acc_call.calls = <<>>)
    /\ \A j \in DOMAIN acc_call.calls : acc_call.calls[j].y = None
    /\ RowsSeen = acc_call.X
    /\ acc_call.N = IF acc_call.num_samples # -1
                       /\ acc_call.given > acc_call.num_samples
                      THEN acc_call.num_samples ELSE acc_call.given

\* What the call returns: the number of examples whose arg-max class is the
\* label, over N.
CheckAccuracyValue ==
    /\ acc_call.pc = "returned"
    /\ acc_call.of = acc_call.N
    /\ acc_call.matches =
          Cardinality({j \in 1 .. acc_call.N :
                          acc_call.predict[acc_call.X[j]] = acc_call.y[j]})
    /\ acc_call.matches \in 0 .. acc_call.of

\* C22 as stated: check_accuracy on N examples runs ceil(N / batch_size)
\* label-free forward passes over consecutive slices covering every example
\* once and in order, and returns (number of correct arg-max classes) / N,
\* a value in [0, 1].
C22_CheckAccuracyReturnsFraction ==
    CheckAccuracyDone => CheckAccuracyPasses /\ CheckAccuracyValue

\* C22, as the code has it: the above for N >= 1; for N = 0 (an empty data
\* set, or num_samples = 0) no forward pass is run and np.hstack raises.
C22_CheckAccuracyOnNonEmptyData ==
    CheckAccuracyDone =>
        /\ CheckAccuracyPasses
        /\ IF acc_call.N >= 1 THEN CheckAccuracyValue
                              ELSE acc_call.pc = "raised"

\* A call on three examples that returned after two passes, the second one
\* on the remainder, with two examples classified correctly.
C22_Witness ==
    /\ acc_call.pc = "returned"
    /\ acc_call.given = 3
    /\ acc_call.N = 3
    /\ acc_call.batch_size = 2
    /\ Len(acc_call.calls) = 2
    /\ acc_call.matches = 2

-----------------------------------------------------------------------------
(* The dropout seed.                                                         *)

\* The last call was a train-mode loss() of a FullyConnectedNet with dropout
\* layers and a seed.
SeededTrainLoss ==
    /\ net_class = "FullyConnectedNet"
    /\ use_dropout
    /\ "seed" \in DOMAIN dropout_param
    /\ ret.kind = "loss"

\* C23: with a seed in dropout_param every train-mode dropout_forward call on
\* an input of one shape makes the same mask, whatever was drawn from the
\* shared generator before the call; the seed given to FullyConnectedNet
\* reaches every dropout layer: the masks of all num_layers - 1 layers of a
\* train-mode loss() are the mask of the seed, the rate and the shape alone.
C23_SeededMasksAreIdentical ==
    SeededTrainLoss =>
        /\ Len(ret.masks) = num_layers - 1
        /\ \A i \in DOMAIN ret.masks :
              ret.masks[i] = DropoutMask(ret.rows, dropout_param["p"],
                                         Seeded(dropout_param["seed"]))

\* The third call is a train-mode loss() of a three-layer net on a batch of
\* two rows, made when the generator had been seeded and drawn from twice;
\* both layers kept both entries.
C23_Witness ==
    /\ SeededTrainLoss
    /\ num_layers = 3
    /\ ncalls = 3
    /\ ret.rng_before = [seed |-> 1, drawn |-> 2]
    /\ ret.masks = << <<2, 2>>, <<2, 2>> >>

-----------------------------------------------------------------------------
(* The best-parameter snapshot.                                              *)

RECURSIVE ScanBest(_)
\* <<the maximum of 0 and the validation accuracies of the first n
\* checkpoints, the last of those checkpoints whose accuracy exceeded every
\* accuracy before it and 0 (0 when there is none)>>
ScanBest(n) ==
    IF n = 0 THEN <<0, 0>>
    ELSE LET before == ScanBest(n - 1)
         IN  IF val_acc_history[n] > before[1] THEN <<val_acc_history[n], n>>
                                               ELSE before

\* The checkpoint that set best_val_acc; 0 when there is none.
LastImproving(n) == ScanBest(n)[2]

\* C24: gradient steps never change the best-parameter snapshot, also not in
\* a second train() call: best_params always holds the parameters captured at
\* the checkpoint that set best_val_acc.
C24_StepsLeaveSnapshotAlone ==
    LastImproving(Len(val_acc_history)) # 0 =>
        best_params = ckpt_params[LastImproving(Len(val_acc_history))]

\* A step of the second train() call has changed a parameter and the
\* snapshot with it.
C24_SecondTrainStepChangesSnapshot ==
    /\ train_calls = 2
    /\ LastImproving(Len(val_acc_history)) # 0
    /\ params_is_best
    /\ best_params = model_params
    /\ best_params # ckpt_params[LastImproving(Len(val_acc_history))]

\* C25: at every point of train() best_val_acc is the maximum of 0 and all
\* values appended to val_acc_history so far (so it never decreases, the
\* history only growing), and best_params is replaced only at a checkpoint
\* whose validation accuracy is strictly greater than the previous
\* best_val_acc: it is the snapshot of the last such checkpoint, so a tie
\* keeps the earlier snapshot, and it is still the empty dictionary of _reset
\* in a run whose validation accuracy is always 0.
C25_BestOnlyByStrictImprovement ==
    LET scan == ScanBest(Len(val_acc_history))
    IN  /\ best_val_acc = scan[1]
        /\ \A j \in DOMAIN val_acc_history : val_acc_history[j] <= best_val_acc
        /\ best_val_acc = 0 <=> scan[2] = 0
        /\ best_params = IF scan[2] = 0 THEN EmptyDict ELSE ckpt_params[scan[2]]

\* A tie at the third checkpoint, after steps that changed the parameters:
\* the snapshot is still the one of the second checkpoint.
C25_Witness ==
    /\ val_acc_history = <<0, 1, 1>>
    /\ best_val_acc = 1
    /\ best_params = ckpt_params[2]
    /\ ckpt_params[3] # ckpt_params[2]

-----------------------------------------------------------------------------
(* The dropout seed and the mini-batches of a training run.                  *)

\* The generator a forward pass of the net leaves when a seed is configured.
GeneratorAfter(pass) ==
    IF pass.mode = "train"
    THEN Advance(Seeded(dropout_param["seed"]), pass.rows)
    ELSE Seeded(dropout_param["seed"])

\* C26: with a dropout seed every dropout_forward call, in train mode and in
\* test mode, re-seeds the shared generator, so the generator at the start of
\* each _step after the first is told by the seed and by the kind and shape
\* of the forward pass before it, not by the step number, and the mini-batch
\* indices drawn there repeat.
C26_SeedFixesGeneratorAtStep ==
    (use_dropout /\ "seed" \in DOMAIN dropout_param) =>
        /\ (pc = "loop" /\ LastPass # NoPass) => rng = GeneratorAfter(LastPass)
        /\ (ret.kind = "step" /\ ret.preceding # NoPass) =>
              /\ ret.rng_at_start = GeneratorAfter(ret.preceding)
              /\ ret.batch_mask = Choice(num_train, batch_size,
                                         GeneratorAfter(ret.preceding))

\* The fourth step of a run with two steps per epoch, made right after the
\* third: its generator is the one the third step's train-mode pass left.
C26_Witness ==
    /\ use_dropout
    /\ "seed" \in DOMAIN dropout_param
    /\ ret.kind = "step"
    /\ ret.at = 3
    /\ ret.preceding = [mode |-> "train", rows |-> 1]
    /\ ret.rng_at_start = [seed |-> 1, drawn |-> 1]

\* Without a seed the generator at the start of a step has moved on with
\* every draw made before it.
C26_UnseededGeneratorMovesOn ==
    /\ use_dropout
    /\ "seed" \notin DOMAIN dropout_param
    /\ ret.kind = "step"
    /\ ret.at = 3
    /\ ret.rng_at_start.drawn > 3

=============================================================================
